---- MODULE Spec2Model ----
(***************************************************************************)
(* A state-machine model of piano_capture/app.py: the batch runner `run`   *)
(* and the capture session `capture_performance`, with the audio callback  *)
(* `recording_callback` as a concurrent activity and KeyboardInterrupt,    *)
(* device failures and clock readings as the environment.                  *)
(*                                                                         *)
(* Time.  time.time() is the variable `now` (seconds); it advances where   *)
(* the main flow blocks: in the cooldown rest and over a capture session.  *)
(* input_stream.time is the variable `stime` (seconds); it advances by the *)
(* lag between two statements, and time.sleep(d) advances it by at least d.*)
(* The stream fills one block of audio every BlockSecs seconds of `stime`  *)
(* and the callback is handed a block some time after it was filled.       *)
(* File names are sequences of one-character strings.                      *)
(***************************************************************************)
EXTENDS Integers, Sequences, FiniteSets, TLC

\* ---------------------------------------------------------------- bounds
MaxMsgs == 2           \* messages of one MIDI file
MaxDelta == 1          \* largest delta time of a message, seconds
MaxLag == 1            \* largest lag / oversleep of the main flow, seconds
MaxBlocks == 2         \* blocks the audio callback delivers in a session
MaxSessionSteps == 3   \* wall-clock length of a session, in WallStep units (rounded up)
WallStep == 30         \* granularity of the wall clock, seconds
StreamEpoch == 1       \* reading of input_stream.time when the stream opens
BlockSecs == 2         \* seconds of audio in one block handed to the callback

\* ------------------------------------------------------- program constants
HoldSecs == 3              \* time.sleep(3)
MaxCooldownRatio == 5      \* ratio > 5.0 is refused
SecPerMin == 60            \* int(cooldown_parameters[i] * 60)
ExitConfig == 1            \* sys.exit(1)
ExitInterrupt == 130       \* sys.exit(130)

\* ------------------------------------------------------------- utilities
Max(S) == CHOOSE x \in S : \A y \in S : y <= x

\* ------------------------------------------------------- pathlib helpers
\* index of the last "." of a name, 0 when there is none (str.rfind)
LastDot(name) ==
    LET I == {i \in 1..Len(name) : name[i] = "."}
    IN  IF I = {} THEN 0 ELSE Max(I)

\* PurePath.suffix: the last dot counts unless it is the first or last character
Suffix(name) ==
    LET i == LastDot(name)
    IN  IF 1 < i /\ i < Len(name) THEN SubSeq(name, i, Len(name)) ELSE <<>>

\* PurePath.stem
Stem(name) ==
    LET i == LastDot(name)
    IN  IF 1 < i /\ i < Len(name) THEN SubSeq(name, 1, i - 1) ELSE name

\* PurePath.with_name
WithName(path, name) == [path EXCEPT !.name = name]

\* PurePath.with_suffix: replaces the suffix of the name, or appends one
WithSuffix(path, suffix) ==
    LET old == Suffix(path.name)
    IN  [path EXCEPT !.name = SubSeq(path.name, 1, Len(path.name) - Len(old)) \o suffix]

DotWav == <<".", "w", "a", "v">>

\* the pattern "*.[Mm][Ii][Dd]" of rglob
MatchesMid(name) ==
    LET n == Len(name)
    IN  /\ n >= 4
        /\ name[n - 3] = "."
        /\ name[n - 2] \in {"m", "M"}
        /\ name[n - 1] \in {"i", "I"}
        /\ name[n] \in {"d", "D"}

\* ------------------------------------------------------------ file system
\* files that may lie beneath input_midi_root: relative directory, name, st_size
FileA == [dir |-> "", name |-> <<"a", ".", "m", "i", "d">>, size |-> 2]
FileB == [dir |-> "s", name |-> <<"b", ".", "M", "I", "D">>, size |-> 1]
FileAB == [dir |-> "", name |-> <<"a", ".", "b", ".", "m", "i", "d">>, size |-> 3]
FileN == [dir |-> "", name |-> <<"n", ".", "t", "x", "t">>, size |-> 4]
FilePool == {FileA, FileB, FileAB, FileN}

RelPath(f) == [dir |-> f.dir, name |-> f.name]

\* midi_root.rglob("*.[Mm][Ii][Dd]")
Rglob(files) == {f \in files : MatchesMid(f.name)}

\* sorted(midi_filepaths, key=lambda p: p.stat().st_size)
RECURSIVE SortedBySize(_)
SortedBySize(S) ==
    IF S = {} THEN <<>>
    ELSE LET m == CHOOSE f \in S : \A g \in S : f.size <= g.size
         IN  <<m>> \o SortedBySize(S \ {m})

\* relative_audio_path of run
RelativeAudioPath(relative_midi_path, output_suffix) ==
    WithSuffix(WithName(relative_midi_path, Stem(relative_midi_path.name) \o output_suffix),
               DotWav)

Suffixes == {<<>>, <<"_", "x">>}

\* the batches checked: the files beneath input_midi_root and output_suffix
Batches ==
    { [files |-> {FileA, FileB, FileN}, output_suffix |-> <<"_", "x">>],
      [files |-> {FileA, FileAB}, output_suffix |-> <<>>] }

AllDests == {RelativeAudioPath(RelPath(f), s) : f \in FilePool, s \in Suffixes}

NoFile == [exists |-> FALSE, data |-> <<>>]
OldFile == [exists |-> TRUE, data |-> <<0>>]      \* left by an earlier run
NewFile == [exists |-> TRUE, data |-> <<>>]       \* just created, no block yet

\* ------------------------------------------------------------ MIDI source
\* a message of a MIDI file: whether it is a MetaMessage, and msg.time
Msgs == [meta : BOOLEAN, time : 0..MaxDelta]

\* ------------------------------------------------------------ run's inputs
NoneArg == [given |-> FALSE, val |-> <<>>]
Given(v) == [given |-> TRUE, val |-> v]

ChannelArgs ==
    { [num_channels |-> 2, channel_map |-> NoneArg],
      [num_channels |-> 3, channel_map |-> Given(<<2, 3>>)],
      [num_channels |-> 2, channel_map |-> Given(<<>>)] }

CooldownArgs ==
    { NoneArg, Given(<<1, 1>>), Given(<<6, 1>>), Given(<<11, 2>>), Given(<<1, 0>>) }


\* `if channel_map and num_channels != len(channel_map)`: an empty list is falsy
ChannelMismatch(num_channels, channel_map) ==
    /\ channel_map.given
    /\ channel_map.val # <<>>
    /\ num_channels # Len(channel_map.val)

\* `cooldown_parameters[0] / cooldown_parameters[1] > 5.0`, for a divisor > 0
RatioTooHigh(p) == p[1] > MaxCooldownRatio * p[2]

\* a threshold left in minutes
CooldownThresholdSecInMinutes(p) == p[1]

\* `int(cooldown_parameters[0] * 60)`
CooldownThresholdSec(p) == p[1] * SecPerMin

\* `int(cooldown_parameters[1] * 60)`
CooldownDurationSec(p) == p[2] * SecPerMin

\* `time.time() - cooldown_timer > cooldown_threshold_sec`
CooldownExceeded(t, timer, threshold) == t - timer > threshold

\* ------------------------------------------------------------------ state
VARIABLES
    args,                    \* the arguments of run
    disk_midi,               \* the files beneath input_midi_root
    fs,                      \* destination path -> file on disk
    dirs,                    \* directories made by mkdir
    pc,                      \* position of the main flow
    exit_how, exit_code,     \* how the process ended
    midi_filepaths, idx,     \* the sorted sources and the loop's position
    cooldown_threshold_sec, cooldown_duration_sec, cooldown_timer,
    now,                     \* time.time()
    rests,                   \* history: the forced rests, [since, start, end]
    sessions,                \* history: the calls of capture_performance, each
                             \* with its outcome and the blocks handed to the
                             \* callback while its stream was open
    out_path,                \* output_audio_filepath of the current session
    parsed,                  \* MidiFile(input_midi_filepath) has returned
    mid,                     \* the messages `for msg in mid` has yielded so far
    out_port, file, input_stream,   \* "none", "open"/"active", "closed"
    audio_buffer,            \* the list the callback appends to
    delivered,               \* blocks the callback was handed in this session
    wi,                      \* position of the write loop in audio_buffer
    stime,                   \* input_stream.time
    start_time, input_time,
    sent,                    \* messages out_port.send accepted in this session
    resets,                  \* history: calls of out_port.reset
    oplog,                   \* history: the steps of the interrupt handler
    int_at                   \* history: where KeyboardInterrupt arrived

runVars == <<args, disk_midi, midi_filepaths, idx, cooldown_threshold_sec,
             cooldown_duration_sec, cooldown_timer, rests>>
procVars == <<pc, exit_how, exit_code, int_at>>
diskVars == <<fs, dirs>>
devVars == <<out_port, file, input_stream>>
playVars == <<parsed, mid, stime, start_time, input_time, sent>>
bufVars == <<audio_buffer, delivered, wi>>
vars == <<runVars, procVars, diskVars, devVars, playVars, bufVars,
          now, sessions, out_path, resets, oplog>>

\* pcs inside the try block of capture_performance (lines 89-124)
TryPcs == {"open_stream", "play", "write", "leave"}
\* pcs inside capture_performance
SessionPcs == {"cp_load", "open_port", "open_file"} \cup TryPcs

\* a batch starts with its sources and at most one destination file, left by
\* an earlier run of the same batch
Init ==
    /\ \E ch \in ChannelArgs, cd \in CooldownArgs, b \in Batches :
          /\ args = [num_channels |-> ch.num_channels, channel_map |-> ch.channel_map,
                     cooldown_parameters |-> cd, output_suffix |-> b.output_suffix]
          /\ disk_midi = b.files
    /\ \E old \in SUBSET {RelativeAudioPath(RelPath(f), args.output_suffix) :
                                f \in Rglob(disk_midi)} :
          /\ Cardinality(old) <= 1
          /\ fs = [d \in AllDests |-> IF d \in old THEN OldFile ELSE NoFile]
    /\ dirs = {}
    /\ pc = "run" /\ exit_how = "none" /\ exit_code = -1 /\ int_at = "none"
    /\ midi_filepaths = <<>> /\ idx = 0
    /\ cooldown_threshold_sec = 0 /\ cooldown_duration_sec = 0 /\ cooldown_timer = 0
    /\ now = 0 /\ rests = <<>> /\ sessions = <<>>
    /\ out_path = [dir |-> "", name |-> <<>>]
    /\ parsed = FALSE /\ mid = <<>> /\ stime = 0 /\ start_time = 0 /\ input_time = 0
    /\ sent = <<>> /\ resets = 0 /\ oplog = <<>>
    /\ out_port = "none" /\ file = "none" /\ input_stream = "none"
    /\ audio_buffer = <<>> /\ delivered = 0 /\ wi = 0

\* the process ends: sys.exit, an uncaught exception, or run returning
Exit(how, code) ==
    /\ pc' = "exited"
    /\ exit_how' = how
    /\ exit_code' = code

\* a resource opened without a with block: nothing closes it
LeftAsIs(h) == h

\* a context manager's __exit__ closes what was opened
Closed(h) == IF h = "none" THEN "none" ELSE "closed"

\* the call of capture_performance is left: how, and from which position
SetOutcome(o) ==
    sessions' = [sessions EXCEPT ![Len(sessions)].outcome = o,
                                 ![Len(sessions)].at = pc,
                                 ![Len(sessions)].delivered = delivered]

\* the frame of capture_performance is gone: its locals, and what the model
\* records of the session beside them, are as before the call
FrameGone ==
    /\ parsed' = FALSE /\ mid' = <<>> /\ stime' = 0 /\ start_time' = 0 /\ input_time' = 0
    /\ sent' = <<>>
    /\ audio_buffer' = <<>> /\ delivered' = 0 /\ wi' = 0

\* ------------------------------------------------------------ run, 199-237
RunStart ==
    /\ pc = "run"
    /\ LET cd == args.cooldown_parameters IN
       IF ChannelMismatch(args.num_channels, args.channel_map)
          THEN Exit("sys_exit", ExitConfig) /\ UNCHANGED runVars
       ELSE IF ~cd.given
          THEN Exit("sys_exit", ExitConfig) /\ UNCHANGED runVars
       ELSE IF cd.val[2] = 0                     \* ZeroDivisionError
          THEN Exit("exception", 1) /\ UNCHANGED runVars
       ELSE IF RatioTooHigh(cd.val)
          THEN Exit("sys_exit", ExitConfig) /\ UNCHANGED runVars
       ELSE /\ cooldown_threshold_sec' = CooldownThresholdSec(cd.val)
            /\ cooldown_duration_sec' = CooldownDurationSec(cd.val)
            /\ midi_filepaths' = SortedBySize(Rglob(disk_midi))
            /\ idx' = 1
            /\ cooldown_timer' = now
            /\ pc' = "loop"
            /\ UNCHANGED <<args, disk_midi, rests, exit_how, exit_code>>
    /\ UNCHANGED <<int_at, diskVars, devVars, playVars, bufVars, now, sessions,
                   out_path, resets, oplog>>

\* the for loop is exhausted: run returns
RunReturn ==
    /\ pc = "loop"
    /\ idx > Len(midi_filepaths)
    /\ Exit("return", 0)
    /\ UNCHANGED <<runVars, int_at, diskVars, devVars, playVars, bufVars, now,
                   sessions, out_path, resets, oplog>>

\* a timer that the rest leaves as it was
CooldownTimerKept(t, timer) == timer

\* line 242: `cooldown_timer = time.time()`
CooldownTimerAfterRest(t, timer) == t

\* lines 240-242, the threshold exceeded: sleep, then restart the timer

CooldownRest ==
    /\ pc = "loop"
    /\ idx <= Len(midi_filepaths)
    /\ CooldownExceeded(now, cooldown_timer, cooldown_threshold_sec)
    /\ \E over \in 0..1 :
          /\ now' = now + cooldown_duration_sec + over * WallStep
          /\ cooldown_timer' = CooldownTimerAfterRest(now', cooldown_timer)
          /\ rests' = Append(rests, [since |-> IF rests = <<>> THEN 0
                                               ELSE rests[Len(rests)].end,
                                     start |-> now, end |-> now'])
    /\ pc' = "derive"
    /\ UNCHANGED <<args, disk_midi, midi_filepaths, idx, cooldown_threshold_sec,
                   cooldown_duration_sec, exit_how, exit_code, int_at, diskVars,
                   devVars, playVars, bufVars, sessions, out_path, resets, oplog>>

\* line 240, the threshold not exceeded
CooldownPass ==
    /\ pc = "loop"
    /\ idx <= Len(midi_filepaths)
    /\ ~CooldownExceeded(now, cooldown_timer, cooldown_threshold_sec)
    /\ pc' = "derive"
    /\ UNCHANGED <<runVars, exit_how, exit_code, int_at, diskVars, devVars,
                   playVars, bufVars, now, sessions, out_path, resets, oplog>>

\* output_audio_filepath of the source the loop is at (lines 244-250)
OutputAudioFilepath ==
    RelativeAudioPath(RelPath(midi_filepaths[idx]), args.output_suffix)

\* a check that never finds the file
ExistsNever(path) == FALSE

\* `output_audio_filepath.exists()`
Exists(path) == fs[path].exists

\* lines 251-253: the destination exists, the source is skipped
SkipExisting ==
    /\ pc = "derive"
    /\ Exists(OutputAudioFilepath)
    /\ idx' = idx + 1
    /\ pc' = "loop"
    /\ UNCHANGED <<args, disk_midi, midi_filepaths, cooldown_threshold_sec,
                   cooldown_duration_sec, cooldown_timer, rests, exit_how,
                   exit_code, int_at, diskVars, devVars, playVars, bufVars, now,
                   sessions, out_path, resets, oplog>>

\* lines 254-265: mkdir, then the call of capture_performance (line 57)
StartSession ==
    /\ pc = "derive"
    /\ ~Exists(OutputAudioFilepath)
    /\ dirs' = dirs \cup {OutputAudioFilepath.dir}
    /\ out_path' = OutputAudioFilepath
    /\ sessions' = Append(sessions, [src |-> midi_filepaths[idx],
                                     out |-> OutputAudioFilepath,
                                     outcome |-> "running", at |-> "none",
                                     delivered |-> 0])
    /\ FrameGone
    /\ resets' = 0 /\ oplog' = <<>>
    /\ out_port' = "none" /\ file' = "none" /\ input_stream' = "none"
    /\ pc' = "cp_load"
    /\ UNCHANGED <<runVars, exit_how, exit_code, int_at, fs, now>>

\* capture_performance returns to the loop of run
ReturnToRun ==
    /\ idx' = idx + 1
    /\ pc' = "loop"
    /\ UNCHANGED <<args, disk_midi, midi_filepaths, cooldown_threshold_sec,
                   cooldown_duration_sec, cooldown_timer, rests, exit_how,
                   exit_code, int_at>>

\* an exception other than KeyboardInterrupt leaves capture_performance: the
\* with blocks close what is open, run has no handler, the process ends
Propagate ==
    /\ input_stream' = Closed(input_stream)
    /\ file' = Closed(file)
    /\ out_port' = Closed(out_port)
    /\ SetOutcome("error")
    /\ FrameGone
    /\ Exit("exception", 1)
    /\ UNCHANGED <<runVars, int_at, dirs, now, out_path, resets, oplog>>

\* ------------------------------------------- capture_performance, 57-79
\* a load without the try/except of lines 70-75: the parse error propagates
LoadMidiUnguarded ==
    /\ pc = "cp_load"
    /\ \/ Propagate
       \/ /\ parsed' = TRUE
          /\ pc' = "open_port"
          /\ UNCHANGED <<runVars, exit_how, exit_code, int_at, sessions,
                         mid, stime, start_time, input_time, sent, bufVars,
                         dirs, devVars, now, out_path, resets, oplog>>
    /\ UNCHANGED fs

LoadMidi ==
    /\ pc = "cp_load"
    /\ IF ChannelMismatch(args.num_channels, args.channel_map)
          THEN /\ SetOutcome("skipped") /\ ReturnToRun /\ FrameGone
          ELSE \/ /\ SetOutcome("skipped") /\ ReturnToRun    \* MidiFile raised
                  /\ FrameGone
               \/ /\ parsed' = TRUE
                  /\ pc' = "open_port"
                  /\ UNCHANGED <<runVars, exit_how, exit_code, int_at, sessions,
                                 mid, stime, start_time, input_time, sent, bufVars>>
    /\ UNCHANGED <<diskVars, devVars, now, out_path, resets, oplog>>

\* line 81: open_output(output_port_name)
OpenOutput ==
    /\ pc = "open_port"
    /\ \/ /\ out_port' = "open"
          /\ pc' = "open_file"
          /\ UNCHANGED <<runVars, exit_how, exit_code, int_at, file, input_stream,
                         sessions, dirs, now, out_path, resets, oplog>>
          /\ UNCHANGED <<playVars, bufVars>>
       \/ Propagate
    /\ UNCHANGED fs

\* lines 82-88: sf.SoundFile(mode="w") creates or truncates the file
OpenSoundFile ==
    /\ pc = "open_file"
    /\ \/ /\ file' = "open"
          /\ fs' = [fs EXCEPT ![out_path] = NewFile]
          /\ pc' = "open_stream"
          /\ UNCHANGED <<runVars, exit_how, exit_code, int_at, out_port,
                         input_stream, sessions, dirs, now, out_path, resets, oplog>>
          /\ UNCHANGED <<playVars, bufVars>>
       \/ Propagate /\ UNCHANGED fs

\* `start_time = input_stream.time`
StartTime(reading) == reading

\* lines 90-103: the stream is opened and started, the player's clock is set
OpenInputStream ==
    /\ pc = "open_stream"
    /\ \/ /\ input_stream' = "active"
          /\ stime' = StreamEpoch
          /\ start_time' = StartTime(stime')
          /\ input_time' = 0
          /\ pc' = "play"
          /\ UNCHANGED <<runVars, exit_how, exit_code, int_at, out_port, file,
                         sessions, dirs, now, out_path, resets, oplog, parsed, mid,
                         sent, bufVars>>
       \/ Propagate
    /\ UNCHANGED fs

\* a callback that puts the block at the head of the list
BufferPrepend(buffer, block) == <<block>> \o buffer

\* line 68: `audio_buffer.append(indata.copy())`
BufferAppend(buffer, block) == Append(buffer, block)

\* the blocks the stream has filled by a reading of its clock: the stream
\* starts with the clock at StreamEpoch and fills a block every BlockSecs
BlocksFilled(reading) == (reading - StreamEpoch) \div BlockSecs

\* lines 65-68: the audio thread hands the callback a block it has filled
RecordingCallback ==
    /\ input_stream = "active"
    /\ delivered < MaxBlocks
    /\ delivered < BlocksFilled(stime)
    /\ delivered' = delivered + 1
    /\ audio_buffer' = BufferAppend(audio_buffer, delivered')
    /\ UNCHANGED <<runVars, procVars, diskVars, devVars, playVars, wi, now,
                   sessions, out_path, resets, oplog>>

\* lines 107-108
DurationToNextEvent(it, reading, start) == it - (reading - start)

\* by how much a time.sleep may overrun; no choice where the code does not sleep
Oversleep(duration) == IF duration > 0 THEN 0..MaxLag ELSE {0}

\* a player that never sleeps
AfterNoSleep(reading, duration, over) == reading

\* lines 110-111: the stream clock after the optional time.sleep
AfterSleep(reading, duration, over) ==
    IF duration > 0 THEN reading + duration + over ELSE reading

\* a loop without the `continue`
IsSkippedNever(msg) == FALSE

\* `isinstance(msg, MetaMessage)`: the message is not sent
IsSkipped(msg) == msg.meta

\* lines 105-116, one turn of the player's loop: the file yields its next
\* message (MidiFile.__iter__ is a generator over the parsed tracks; the model
\* learns a message when it is yielded), the player waits for the message's
\* instant, then passes over a meta message and sends any other
PlayMessage ==
    /\ pc = "play"
    /\ Len(mid) < MaxMsgs
    /\ \/ \E msg \in Msgs, lag \in 0..MaxLag :
             LET it == input_time + msg.time
                 reading == stime + lag
                 duration_to_next_event == DurationToNextEvent(it, reading, start_time)
             IN  /\ mid' = Append(mid, msg)
                 /\ input_time' = it
                 /\ \E over \in Oversleep(duration_to_next_event) :
                       stime' = AfterSleep(reading, duration_to_next_event, over)
                 /\ sent' = IF IsSkipped(msg)
                               THEN sent
                               ELSE Append(sent, [pos |-> Len(mid'), msg |-> msg])
          /\ UNCHANGED <<runVars, procVars, devVars, sessions, dirs, now,
                         out_path, resets, oplog, parsed, start_time, bufVars>>
       \/ /\ \E msg \in Msgs : ~IsSkipped(msg)      \* out_port.send raised
          /\ Propagate
    /\ UNCHANGED fs

\* line 120: the file has no further message, time.sleep(3).  Nothing after
\* this line reads the messages: the model keeps them no longer.
Hold ==
    /\ pc = "play"
    /\ mid' = <<>> /\ sent' = <<>>
    /\ \E over \in 0..MaxLag : stime' = stime + HoldSecs + over
    /\ pc' = "write"
    /\ UNCHANGED <<runVars, exit_how, exit_code, int_at, diskVars, devVars, parsed,
                   start_time, input_time, bufVars, now, sessions, out_path,
                   resets, oplog>>

\* lines 123-124: one turn of the write loop; the list iterator compares its
\* index with the length the list has now
WriteBlock ==
    /\ pc = "write"
    /\ wi < Len(audio_buffer)
    /\ fs' = [fs EXCEPT ![out_path].data = Append(@, audio_buffer[wi + 1])]
    /\ wi' = wi + 1
    /\ UNCHANGED <<runVars, procVars, dirs, devVars, playVars, audio_buffer,
                   delivered, now, sessions, out_path, resets, oplog>>

\* the list iterator is exhausted
WriteDone ==
    /\ pc = "write"
    /\ wi >= Len(audio_buffer)
    /\ pc' = "leave"
    /\ UNCHANGED <<runVars, exit_how, exit_code, int_at, diskVars, devVars, playVars,
                   bufVars, now, sessions, out_path, resets, oplog>>

\* the with blocks are left in turn (lines 96, 88, 81) and the call returns
LeaveSession ==
    /\ pc = "leave"
    /\ input_stream' = "closed"
    /\ file' = "closed"
    /\ out_port' = "closed"
    /\ SetOutcome("completed")
    /\ \E k \in 1..MaxSessionSteps : now' = now + k * WallStep
    /\ ReturnToRun
    /\ FrameGone
    /\ UNCHANGED <<diskVars, out_path, resets, oplog>>

\* ------------------------------------------------------ KeyboardInterrupt
\* lines 125-132; file.close() and unlink() may raise, and then the rest of
\* the handler is not run
Teardown ==
    \E fault \in {"none", "close", "unlink"} :
       /\ input_stream' = Closed(input_stream)
       /\ file' = "closed"
       /\ out_port' = "closed"
       /\ SetOutcome("interrupted")
       /\ CASE fault = "none" ->
                 /\ fs' = [fs EXCEPT ![out_path] = NoFile]
                 /\ resets' = resets + 1
                 /\ oplog' = <<"file.close", "unlink", "reset", "port.close", "exit">>
                 /\ Exit("sys_exit", ExitInterrupt)
            [] fault = "close" ->
                 /\ oplog' = <<"file.close raised">>
                 /\ Exit("exception", 1)
                 /\ UNCHANGED <<fs, resets>>
            [] fault = "unlink" ->
                 /\ oplog' = <<"file.close", "unlink raised">>
                 /\ Exit("exception", 1)
                 /\ UNCHANGED <<fs, resets>>

\* KeyboardInterrupt outside the try block: nothing catches it, the with
\* blocks entered so far close what they opened.  Raised inside the call of
\* sf.SoundFile (lines 82-88, before the try of line 89), it may find the
\* file already created.
Uncaught ==
    /\ input_stream' = Closed(input_stream)
    /\ file' = Closed(file)
    /\ out_port' = Closed(out_port)
    /\ IF pc \in SessionPcs THEN SetOutcome("interrupted") ELSE UNCHANGED sessions
    /\ IF pc = "open_file"
          THEN \E created \in BOOLEAN :
                  fs' = IF created THEN [fs EXCEPT ![out_path] = NewFile] ELSE fs
          ELSE UNCHANGED fs
    /\ Exit("sigint", ExitInterrupt)
    /\ UNCHANGED <<resets, oplog>>

Interrupt ==
    /\ pc # "exited"
    /\ int_at' = pc
    /\ IF pc \in TryPcs THEN Teardown ELSE Uncaught
    /\ FrameGone
    /\ UNCHANGED <<runVars, dirs, now, out_path>>

Next ==
    \/ RunStart \/ RunReturn \/ CooldownRest \/ CooldownPass
    \/ SkipExisting \/ StartSession
    \/ LoadMidi \/ OpenOutput \/ OpenSoundFile \/ OpenInputStream
    \/ RecordingCallback \/ PlayMessage \/ Hold
    \/ WriteBlock \/ WriteDone \/ LeaveSession
    \/ Interrupt

Spec == Init /\ [][Next]_vars

TypeOK ==
    /\ pc \in {"run", "loop", "derive", "exited"} \cup SessionPcs
    /\ out_port \in {"none", "open", "closed"}
    /\ wi <= Len(audio_buffer)

\* ------------------------------------------------------------ the claims
Ended == sessions # <<>> /\ sessions[Len(sessions)].outcome # "running"
Completed == sessions # <<>> /\ sessions[Len(sessions)].outcome = "completed"

\* after the stream was opened: playback, the trailing hold, the write loop
StreamOpenPcs == {"play", "write", "leave"}

\* the cumulative delta of the first n messages
RECURSIVE SumTimes(_, _)
SumTimes(m, n) == IF n = 0 THEN 0 ELSE SumTimes(m, n - 1) + m[n].time

\* the non-meta messages of a file, each with its position, in file order
RECURSIVE NonMeta(_, _)
NonMeta(m, n) ==
    IF n = 0 THEN <<>>
    ELSE IF m[n].meta THEN NonMeta(m, n - 1)
    ELSE Append(NonMeta(m, n - 1), [pos |-> n, msg |-> m[n]])

Blocks(n) == [i \in 1..n |-> i]

\* C1: a session interrupted after its input stream was opened leaves, once
\* the process has ended, no destination file and a port reset exactly once.
C1_InterruptLeavesNoFileAndOneReset ==
    (pc = "exited" /\ int_at \in StreamOpenPcs)
        => (~fs[out_path].exists /\ resets = 1)

\* C2: once a session has ended by any path, its destination file exists only
\* if the session completed playback and wrote the capture buffer.
C2_ResumeSignalSound ==
    (Ended /\ fs[out_path].exists) => Completed

\* C3: throughout playback the messages sent are exactly the non-meta ones
\* among the messages the file has yielded, in order, none left out and none
\* twice, and input_time is the sum of the deltas of all yielded messages; so
\* when the file is exhausted, what was sent is the file's non-meta messages.
C3_SentEqualsNonMeta ==
    pc = "play" => /\ sent = NonMeta(mid, Len(mid))
                   /\ input_time = SumTimes(mid, Len(mid))

\* a meta message with a delta was passed over, the message after it sent
C3_Witness ==
    /\ pc = "play"
    /\ Len(mid) = 2 /\ mid[1].meta /\ ~mid[2].meta /\ mid[1].time > 0
    /\ Len(sent) = 1

\* C4: a message is sent no earlier, on the stream clock, than start_time plus
\* the deltas up to and including it; and a message already due when the loop
\* reaches it is not waited for.
C4_NoEarlyDispatch ==
    [][ /\ (pc = "play" /\ Len(sent') = Len(sent) + 1)
            => stime' >= start_time + SumTimes(mid', Len(mid'))
        /\ (pc = "play" /\ Len(mid') = Len(mid) + 1
                /\ input_time' - (stime - start_time) <= 0)
            => stime' - stime <= MaxLag ]_vars

\* a message sent exactly at its instant, after a wait
C4_Witness ==
    /\ pc = "play" /\ sent # <<>> /\ sent[Len(sent)].pos = Len(mid)
    /\ mid[Len(mid)].time > 0
    /\ stime = start_time + SumTimes(mid, Len(mid))

\* C5: a device or send error in a session does not end the batch.
C5_ErrorDoesNotEndBatch ==
    (sessions # <<>> /\ sessions[Len(sessions)].outcome = "error") => pc # "exited"

\* C6: when the loop reaches a source whose destination exists, no session is
\* started, no device is opened, no directory made and the file is unchanged.
C6_ExistingDestinationSkipped ==
    [][ (pc = "derive" /\ fs[OutputAudioFilepath].exists)
            => /\ sessions' = sessions
               /\ out_port' = out_port /\ file' = file /\ input_stream' = input_stream
               /\ fs' = fs /\ dirs' = dirs
               /\ pc' \in {"loop", "exited"} ]_vars

\* a source passed over for the file an earlier run left, no session made
C6_Witness ==
    /\ pc = "loop" /\ idx > 1 /\ sessions = <<>>
    /\ fs[RelativeAudioPath(RelPath(midi_filepaths[idx - 1]), args.output_suffix)] = OldFile

ConfiguredThresholdSec == args.cooldown_parameters.val[1] * SecPerMin
ConfiguredRestSec == args.cooldown_parameters.val[2] * SecPerMin

\* C7: a session starts only within the threshold of the last timer reset; a
\* rest lasts the full duration, restarts the timer, and is taken only between
\* sessions.
C7_CooldownAtSessionBoundary ==
    [][ /\ (pc # "cp_load" /\ pc' = "cp_load")
            => now' - cooldown_timer' <= ConfiguredThresholdSec
        /\ (rests' # rests)
            => /\ now' - now >= ConfiguredRestSec
               /\ cooldown_timer' = now'
               /\ pc \notin SessionPcs
               /\ "open" \notin {out_port, file} /\ input_stream # "active" ]_vars

\* a session started after a forced rest
C7_Witness == pc = "cp_load" /\ rests # <<>> /\ Len(sessions) = 2

Rejected(a) ==
    \/ ~a.cooldown_parameters.given
    \/ (a.cooldown_parameters.val[2] > 0
          /\ a.cooldown_parameters.val[1] > MaxCooldownRatio * a.cooldown_parameters.val[2])
    \/ (a.channel_map.given /\ a.num_channels # Len(a.channel_map.val))

C9_ConfigurationRejected ==
    Rejected(args) =>
        /\ pc \in {"run", "exited"}
        /\ pc = "exited" => exit_code # 0
        /\ sessions = <<>> /\ dirs = {}
        /\ out_port = "none" /\ file = "none" /\ input_stream = "none"

\* C10: in a completed session the file holds, in arrival order, every block
\* the callback was handed while the stream was open.
C10_NoBlockLost ==
    Completed => fs[out_path].data = Blocks(sessions[Len(sessions)].delivered)

\* the last call of capture_performance, as the model records it
LastSession == sessions[Len(sessions)]

\* the teardown steps in the order the claim names
HandlerSteps == <<"file.close", "unlink", "reset", "port.close", "exit">>

\* C11: the main flow iterates the capture buffer only after the audio input
\* stream has been closed; while it writes, the callback can append no block.
C11_BufferReadAfterStreamClosed ==
    pc = "write" => input_stream # "active"

\* C12: an interrupt caught by the session's handler is followed by close
\* file, delete file, reset port, close port, exit, in this order, and the
\* port is reset also when closing or deleting the file fails.
C12_TeardownOrderAndReset ==
    (pc = "exited" /\ int_at \in TryPcs) => (oplog = HandlerSteps /\ resets = 1)

\* C13: when out_port.send fails during playback, the session has reset and
\* closed the MIDI port and removed the destination file by the time the
\* error has left it.
C13_SendFailureTearsDown ==
    (sessions # <<>> /\ LastSession.outcome = "error" /\ LastSession.at = "play")
        => (resets >= 1 /\ out_port = "closed" /\ ~fs[out_path].exists)

\* C14: an interrupt during a session ends the batch: the process has ended
\* with the session the last one started, and where its status is 130 the
\* destination file is gone and the port the session opened was reset and
\* closed.
C14_InterruptEndsBatch ==
    int_at \in SessionPcs
        => /\ pc = "exited"
           /\ LastSession.outcome = "interrupted"
           /\ exit_code = ExitInterrupt
                 => /\ ~fs[out_path].exists
                    /\ out_port # "open"
                    /\ out_port = "closed" => resets = 1

\* C15: a step of the session in which parsing the source fails ends the
\* session as skipped, with no port, file or stream opened and no file made,
\* leaves the cooldown timer as it was, and hands the loop the next source.
C15_ParseFailureSkips ==
    [][ (pc = "cp_load" /\ ~parsed' /\ int_at' = "none")
            => /\ pc' = "loop" /\ idx' = idx + 1
               /\ sessions'[Len(sessions')].outcome = "skipped"
               /\ out_port' = "none" /\ file' = "none" /\ input_stream' = "none"
               /\ fs' = fs
               /\ cooldown_timer' = cooldown_timer ]_vars

\* the first source was skipped, the session of the second has begun
C15_Witness ==
    /\ Len(sessions) = 2 /\ sessions[1].outcome = "skipped"
    /\ pc = "cp_load" /\ ~fs[sessions[1].out].exists

\* C16: once capture_performance has been left, by whichever path, the MIDI
\* port, the file handle and the input stream it opened are closed.
C16_ResourcesReleased ==
    pc \notin SessionPcs
        => (out_port # "open" /\ file # "open" /\ input_stream # "active")

\* a send error has left the session with all three resources open
C16_Witness ==
    /\ sessions # <<>> /\ LastSession.outcome = "error" /\ LastSession.at = "play"
    /\ out_port = "closed" /\ file = "closed" /\ input_stream = "closed"

\* C17: in a session that completes, the stream is still open and at least 3
\* seconds older when the write loop begins than when the last message was
\* processed; and when the session returns with every block the stream has
\* filled written to the file, the file holds at least the cumulative time of
\* the last message plus 3 seconds of audio.
C17_TrailingMargin ==
    [][ /\ (pc = "play" /\ pc' = "write")
            => (stime' - stime >= HoldSecs /\ input_stream' = "active")
        /\ (pc = "leave" /\ pc' = "loop"
                /\ Len(fs[out_path].data) = BlocksFilled(stime))
            => Len(fs[out_path].data) * BlockSecs >= input_time + HoldSecs ]_vars

\* the destination run derives for its i-th source
DestOf(i) == RelativeAudioPath(RelPath(midi_filepaths[i]), args.output_suffix)

\* C18: distinct discovered sources have distinct destinations, and a batch
\* that returns with every session completed and no file of an earlier run
\* in the destination root has run one session per discovered source.
C18_OneOutputPerSource ==
    /\ \A i, j \in 1..Len(midi_filepaths) : i # j => DestOf(i) # DestOf(j)
    /\ ( /\ exit_how = "return"
         /\ \A d \in AllDests : fs[d] # OldFile
         /\ \A k \in 1..Len(sessions) : sessions[k].outcome = "completed" )
        => Len(sessions) = Len(midi_filepaths)

\* C19: while the write loop runs and after it, the blocks in the file are
\* the first blocks the callback was handed, each once and in arrival order.
C19_WrittenIsPrefixOfDelivered ==
    /\ pc \in {"write", "leave"}
          => /\ fs[out_path].data = Blocks(Len(fs[out_path].data))
             /\ Len(fs[out_path].data) <= delivered
    /\ Completed
          => /\ fs[out_path].data = Blocks(Len(fs[out_path].data))
             /\ Len(fs[out_path].data) <= LastSession.delivered

\* the write loop has written the first block and finds a second one
C19_Witness ==
    /\ pc = "write" /\ wi = 1 /\ Len(audio_buffer) = 2
    /\ fs[out_path].data = <<1>>

====
